---- MODULE Spec2Model ----
(***************************************************************************)
(* temp_icons/generate_icons.py: a batch script that renders a fixed list  *)
(* of square application icons, one after the other.  Each icon gets a     *)
(* black canvas, a rounded rectangle, a letter "C" redrawn once per        *)
(* scanline in a colour computed from a two-segment ramp, and is saved as  *)
(* icons/<name>.                                                           *)
(*                                                                         *)
(* The colour ramp and the font size are float computations in the source. *)
(* They are modelled here in IEEE-754 binary64 arithmetic (round to        *)
(* nearest, ties to even) over multi-limb naturals, because the truncated  *)
(* results differ from exact rational arithmetic (180 * 0.7 truncates to   *)
(* 125, not 126).                                                          *)
(***************************************************************************)
EXTENDS Integers, Sequences, FiniteSets, TLC

(***************************************************************************)
(* Bounds of the environment: the glyph boxes that draw.textsize may       *)
(* report for "C" when the imaging library still has that method.          *)
(***************************************************************************)
MaxGlyphWidth == 2
MaxGlyphHeight == 3
\* the glyph heights over which the ramp alone is explored
MaxRampHeight == 64

(***************************************************************************)
(* Naturals of arbitrary size: little-endian sequences of limbs in base    *)
(* 2^15, without leading zero limbs; <<>> is zero.  A double has a 53-bit  *)
(* significand, which does not fit the 32-bit integers of TLC.              *)
(***************************************************************************)
Base == 2^15

RECURSIVE BitLen(_)
BitLen(n) == IF n = 0 THEN 0 ELSE 1 + BitLen(n \div 2)

RECURSIVE NNorm(_)
NNorm(a) ==
    IF a = <<>> THEN a
    ELSE IF a[Len(a)] = 0 THEN NNorm(SubSeq(a, 1, Len(a) - 1)) ELSE a

RECURSIVE NFromInt(_)
NFromInt(n) == IF n = 0 THEN <<>> ELSE <<n % Base>> \o NFromInt(n \div Base)

RECURSIVE NToInt(_)
NToInt(a) == IF a = <<>> THEN 0 ELSE a[1] + Base * NToInt(Tail(a))

RECURSIVE NMulCarry(_, _, _)
NMulCarry(a, c, carry) ==
    IF a = <<>> THEN NFromInt(carry)
    ELSE LET t == a[1] * c + carry
         IN  <<t % Base>> \o NMulCarry(Tail(a), c, t \div Base)

\* a * c for a machine integer 0 <= c <= Base
NMulSmall(a, c) == NNorm(NMulCarry(a, c, 0))

\* quotient (not normalised) and remainder of a by a machine integer 0 < d < 2*Base
RECURSIVE NDivRem(_, _)
NDivRem(a, d) ==
    IF a = <<>> THEN [q |-> <<>>, r |-> 0]
    ELSE LET hi == NDivRem(Tail(a), d)
             t  == hi.r * Base + a[1]
         IN  [q |-> <<t \div d>> \o hi.q, r |-> t % d]

RECURSIVE NAddCarry(_, _, _)
NAddCarry(a, b, c) ==
    IF a = <<>> /\ b = <<>> THEN NFromInt(c)
    ELSE LET x == IF a = <<>> THEN 0 ELSE a[1]
             z == IF b = <<>> THEN 0 ELSE b[1]
             t == x + z + c
         IN  <<t % Base>> \o NAddCarry(IF a = <<>> THEN a ELSE Tail(a),
                                       IF b = <<>> THEN b ELSE Tail(b),
                                       t \div Base)

NAdd(a, b) == NAddCarry(a, b, 0)

RECURSIVE NSubBorrow(_, _, _)
NSubBorrow(a, b, br) ==
    IF a = <<>> THEN <<>>
    ELSE LET z == IF b = <<>> THEN 0 ELSE b[1]
             t == a[1] - z - br
         IN  <<(t + Base) % Base>>
                 \o NSubBorrow(Tail(a), IF b = <<>> THEN b ELSE Tail(b),
                               IF t < 0 THEN 1 ELSE 0)

\* a - b for a >= b
NSub(a, b) == NNorm(NSubBorrow(a, b, 0))

RECURSIVE NLess(_, _)
NLess(a, b) ==
    IF Len(a) # Len(b) THEN Len(a) < Len(b)
    ELSE IF a = <<>> THEN FALSE
    ELSE IF a[Len(a)] # b[Len(b)] THEN a[Len(a)] < b[Len(b)]
    ELSE NLess(SubSeq(a, 1, Len(a) - 1), SubSeq(b, 1, Len(b) - 1))

NBitLen(a) == IF a = <<>> THEN 0 ELSE 15 * (Len(a) - 1) + BitLen(a[Len(a)])

\* a * 2^n
NShl(a, n) ==
    IF a = <<>> THEN a
    ELSE [j \in 1..(n \div 15) |-> 0] \o NMulSmall(a, 2^(n % 15))

\* floor(a / 2^n)
NShr(a, n) ==
    LET q == n \div 15
    IN  IF q >= Len(a) THEN <<>>
        ELSE NNorm(NDivRem(SubSeq(a, q + 1, Len(a)), 2^(n % 15)).q)

NOdd(a) == a # <<>> /\ a[1] % 2 = 1

(***************************************************************************)
(* Python floats: IEEE-754 binary64.  A non-negative double is a record    *)
(* [m, e] of value m * 2^(-e) with m of at most MantissaBits bits.  Every  *)
(* float the script computes is non-negative and in the normal range.      *)
(***************************************************************************)
MantissaBits == 53

\* The double nearest to m * 2^(-e) (ties to even); sticky says that the
\* exact value lies strictly above m * 2^(-e), by less than one unit of m.
RoundToDouble(m, e, sticky) ==
    LET L == NBitLen(m)
    IN  IF L <= MantissaBits THEN [m |-> m, e |-> e]
        ELSE LET d  == L - MantissaBits
                 q2 == NShr(m, d - 1)
                 st == sticky \/ NShl(q2, d - 1) # m
                 q  == NShr(q2, 1)
                 up == NOdd(q2) /\ (st \/ NOdd(q))
             IN  [m |-> IF up THEN NAdd(q, <<1>>) ELSE q, e |-> e - d]

\* float(n) for an int 0 <= n < 2^30
FInt(n) == [m |-> NFromInt(n), e |-> 0]

\* k / h: Python's true division of two ints, correctly rounded.
\* The quotient is computed to MantissaBits + 3 bits or more, with the
\* remainder as the sticky bit.
FDiv(k, h) ==
    IF k = 0 THEN FInt(0)
    ELSE LET s  == MantissaBits + 3 + BitLen(h)
             dr == NDivRem(NShl(NFromInt(k), s), h)
         IN  RoundToDouble(NNorm(dr.q), s, dr.r # 0)

Max(a, b) == IF a >= b THEN a ELSE b

\* the significand of x on the grid 2^(-e), for e >= x.e
Align(x, e) == NShl(x.m, e - x.e)

\* x * c for a double x and an int 0 <= c <= Base (converted exactly)
FMul(x, c) == RoundToDouble(NMulSmall(x.m, c), x.e, FALSE)

FAdd(x, z) ==
    LET e == Max(x.e, z.e)
    IN  RoundToDouble(NAdd(Align(x, e), Align(z, e)), e, FALSE)

\* x - z for x >= z (every subtraction of the script)
FSub(x, z) ==
    LET e == Max(x.e, z.e)
    IN  RoundToDouble(NSub(Align(x, e), Align(z, e)), e, FALSE)

FLess(x, z) ==
    LET e == Max(x.e, z.e) IN NLess(Align(x, e), Align(z, e))

\* round(x) of Python: to the nearest int, ties to even (the script uses int)
FRound(x) ==
    IF x.e = 0 THEN NToInt(x.m)
    ELSE LET q2 == NShr(x.m, x.e - 1)
             q  == NShr(q2, 1)
             st == NShl(q2, x.e - 1) # x.m
         IN  NToInt(q) + (IF NOdd(q2) /\ (st \/ NOdd(q)) THEN 1 ELSE 0)

\* int(x): truncation toward zero of a non-negative double
FTrunc(x) == NToInt(NShr(x.m, x.e))

\* the literals 0.5 and 0.7: the doubles nearest to 1/2 and 7/10
Half == FDiv(1, 2)
ZeroPointSeven == FDiv(7, 10)

(***************************************************************************)
(* The program.                                                            *)
(***************************************************************************)

\* faulty variant: the items taken in order of size
icon_sizes_sorted ==
    << <<"Icon-40.png", 40>>,  <<"Icon-58.png", 58>>,
       <<"Icon-60.png", 60>>,  <<"Icon-80.png", 80>>,
       <<"Icon-87.png", 87>>,  <<"Icon-120.png", 120>>,
       <<"Icon-180.png", 180>>, <<"Icon-1024.png", 1024>> >>
\* icon_sizes.items(): a dict iterates in insertion order
icon_sizes ==
    << <<"Icon-40.png", 40>>,  <<"Icon-60.png", 60>>,
       <<"Icon-58.png", 58>>,  <<"Icon-87.png", 87>>,
       <<"Icon-80.png", 80>>,  <<"Icon-120.png", 120>>,
       <<"Icon-180.png", 180>>, <<"Icon-1024.png", 1024>> >>

NumIcons == Len(icon_sizes)

\* The environment of one execution.  The named font is there for the
\* whole run, or for none of it, or it is installed or removed between the
\* fourth and the fifth icon.
FontPatterns ==
    { [j \in 1..NumIcons |-> (j <= n) = first] :
          n \in {0, NumIcons \div 2}, first \in BOOLEAN }

GlyphBoxes == (1..MaxGlyphWidth) \X (0..MaxGlyphHeight)
NoBox == <<0, 0>>

VARIABLES
    hasTextsize,     \* hasattr(draw, 'textsize') in the installed library
    arialAvailable,  \* arialAvailable[j]: truetype("Arial.ttf") loads for icon j
    glyphBox,        \* what draw.textsize("C") reports
    pc,              \* the statement the script is at
    rerun,           \* FALSE in the first execution, TRUE in the second
    error,           \* the uncaught exception that ended the execution
    dirExists,       \* the directory icons/ exists
    files,           \* the files of icons/: name -> content
    output,          \* the lines printed by this execution
    i,               \* how many items the for loop has taken from icon_sizes
    img, corner_radius, font_size, font,
    text_width, text_height, position,
    scan,            \* how many values range(...) has yielded
    y, r, g, b,
    drawCalls,       \* history: draw.text calls on the current canvas
    saveCalls,       \* history: the img.save calls of this execution
    firstRun         \* history: files and output at the end of the first execution

env == <<hasTextsize, arialAvailable, glyphBox>>
locals == <<img, corner_radius, font_size, font, text_width, text_height,
            position, scan, y, r, g, b, drawCalls>>
vars == <<env, pc, rerun, error, dirExists, files, output, i, locals,
          saveCalls, firstRun>>

icon_name == icon_sizes[i][1]
size == icon_sizes[i][2]

NoImage == [width |-> 0, height |-> 0, background |-> <<0, 0, 0, 0>>,
            shapes |-> <<>>, glyph |-> {}]
NoFont == [kind |-> "unbound", name |-> "", size |-> 0]

\* faulty variant: a canvas that is not square
ImageNewTall(s) ==
    [width |-> s, height |-> s + s \div 5, background |-> <<0, 0, 0, 255>>,
     shapes |-> <<>>, glyph |-> {}]
\* Image.new('RGBA', (size, size), (0, 0, 0, 255))
ImageNew(s) ==
    [width |-> s, height |-> s, background |-> <<0, 0, 0, 255>>,
     shapes |-> <<>>, glyph |-> {}]

\* draw.rounded_rectangle([(0, 0), (size, size)], corner_radius, fill=(0, 0, 0, 255))
RoundedRectangle(canvas, s, radius) ==
    [canvas EXCEPT !.shapes =
        Append(@, [box |-> <<0, 0, s, s>>, radius |-> radius,
                   fill |-> <<0, 0, 0, 255>>])]

\* faulty variant: floor(7 * size / 10) in exact arithmetic
FontSizeExact(s) == (s * 7) \div 10
\* font_size = int(size * 0.7)
FontSize(s) == FTrunc(FMul(ZeroPointSeven, s))

\* faulty variant: no fallback to the default font
LoadFontNoFallback(available, fs) ==
    [kind |-> "truetype", name |-> "Arial.ttf", size |-> fs]
\* try: ImageFont.truetype("Arial.ttf", font_size)
\* except IOError: ImageFont.load_default()
LoadFont(available, fs) ==
    IF available
    THEN [kind |-> "truetype", name |-> "Arial.ttf", size |-> fs]
    ELSE [kind |-> "default", name |-> "", size |-> 0]

\* draw.textsize(text, font=font) if hasattr(draw, 'textsize') else (font_size, font_size)
TextSize(fs) == IF hasTextsize THEN glyphBox ELSE <<fs, fs>>

\* ((size - text_width) // 2, (size - text_height) // 2)
Position(s, w, h) == <<(s - w) \div 2, (s - h) \div 2>>

\* faulty variant: a range that includes its stop
RangeStopInclusive(start, h) == start + h + 1
\* the stop of range(position[1], position[1] + text_height)
RangeStop(start, h) == start + h

\* the top half of the ramp: progress < 0.5
PinkToOrange(progress) ==
    <<FTrunc(FSub(FInt(255), FMul(FMul(progress, 2), 0))),
      FTrunc(FAdd(FInt(20), FMul(FMul(progress, 2), 150))),
      FTrunc(FSub(FInt(100), FMul(FMul(progress, 2), 100)))>>

\* faulty variant: a bottom half that starts at green 150
OrangeToGreenFrom150(progress) ==
    LET adjusted_progress == FMul(FSub(progress, Half), 2)
    IN  <<FTrunc(FSub(FInt(255), FMul(adjusted_progress, 255))),
          FTrunc(FAdd(FInt(150), FMul(adjusted_progress, 85))),
          FTrunc(FAdd(FInt(0), FMul(adjusted_progress, 150)))>>
\* the bottom half of the ramp
OrangeToGreen(progress) ==
    LET adjusted_progress == FMul(FSub(progress, Half), 2)
    IN  <<FTrunc(FSub(FInt(255), FMul(adjusted_progress, 255))),
          FTrunc(FAdd(FInt(170), FMul(adjusted_progress, 85))),
          FTrunc(FAdd(FInt(0), FMul(adjusted_progress, 150)))>>

\* the colour of scanline k of a glyph h high: progress = k / h
GradientColor(k, h) ==
    LET progress == FDiv(k, h)
    IN  IF FLess(progress, Half) THEN PinkToOrange(progress)
        ELSE OrangeToGreen(progress)

\* faulty variant: every draw adds its colour to the glyph
DrawTextBlend(canvas, pos, fnt, fill) ==
    [canvas EXCEPT !.glyph = @ \cup {[at |-> pos, font |-> fnt, fill |-> fill]}]
\* draw.text(position, text, fill=(r, g, b), font=font): the glyph's pixels
\* are those of its mask at that place; drawing it again there in another
\* colour replaces the colour of those very pixels.
DrawText(canvas, pos, fnt, fill) ==
    [canvas EXCEPT !.glyph =
        {l \in @ : l.at # pos \/ l.font # fnt}
            \cup {[at |-> pos, font |-> fnt, fill |-> fill]}]

\* whether os.makedirs("icons", exist_ok=True) raises: not for an existing directory
MakedirsRaises(exists) == FALSE

\* faulty variant: an encoding that records when it was made
EncodeStamped(canvas) ==
    [format |-> "PNG", mode |-> "RGBA",
     chunks |-> IF rerun THEN <<"IHDR", "tIME", "IDAT">> ELSE <<"IHDR", "IDAT">>,
     pixels |-> canvas]
\* img.save(f"icons/{icon_name}"): the PNG encoding of the canvas
Encode(canvas) ==
    [format |-> "PNG", mode |-> "RGBA", chunks |-> <<"IHDR", "IDAT">>,
     pixels |-> canvas]

\* icons/ with no file in it
NoFiles == [n \in {} |-> Encode(NoImage)]

\* faulty variant: the error is caught and the loop goes on
AfterSaveErrorLogged == "print"
\* where control goes when img.save raises: nothing catches it
AfterSaveError == "aborted"

GeneratedLine(name, s) == <<"Generated", name, s, s>>
DoneLine == <<"All icons generated successfully!">>

Init ==
    /\ hasTextsize \in BOOLEAN
    /\ arialAvailable \in FontPatterns
    /\ glyphBox \in (IF hasTextsize THEN GlyphBoxes ELSE {NoBox})
    /\ pc = "makedirs"
    /\ rerun = FALSE
    /\ error = "none"
    /\ dirExists \in BOOLEAN
    /\ files = NoFiles
    /\ output = <<>>
    /\ i = 0
    /\ img = NoImage
    /\ corner_radius = 0
    /\ font_size = 0
    /\ font = NoFont
    /\ text_width = 0
    /\ text_height = 0
    /\ position = <<0, 0>>
    /\ scan = 0
    /\ y = 0
    /\ r = 0
    /\ g = 0
    /\ b = 0
    /\ drawCalls = 0
    /\ saveCalls = <<>>
    /\ firstRun = [files |-> NoFiles, output |-> <<>>]

\* line 5
MakeDirs ==
    /\ pc = "makedirs"
    /\ IF MakedirsRaises(dirExists)
       THEN /\ error' = "FileExistsError"
            /\ pc' = "aborted"
            /\ UNCHANGED dirExists
       ELSE /\ dirExists' = TRUE
            /\ pc' = "for"
            /\ UNCHANGED error
    /\ UNCHANGED <<env, rerun, files, output, i, locals, saveCalls, firstRun>>

\* line 20: the next item of icon_sizes, or the end of the loop
ForIcon ==
    /\ pc = "for"
    /\ IF i < NumIcons
       THEN i' = i + 1 /\ pc' = "new"
       ELSE i' = i /\ pc' = "final"
    /\ UNCHANGED <<env, rerun, error, dirExists, files, output, locals,
                   saveCalls, firstRun>>

\* lines 22-23
NewImage ==
    /\ pc = "new"
    /\ img' = ImageNew(size)
    /\ drawCalls' = 0
    /\ pc' = "rect"
    /\ UNCHANGED <<env, rerun, error, dirExists, files, output, i,
                   corner_radius, font_size, font, text_width, text_height,
                   position, scan, y, r, g, b, saveCalls, firstRun>>

\* lines 26-27
DrawBackground ==
    /\ pc = "rect"
    /\ corner_radius' = size \div 5
    /\ img' = RoundedRectangle(img, size, size \div 5)
    /\ pc' = "font"
    /\ UNCHANGED <<env, rerun, error, dirExists, files, output, i,
                   font_size, font, text_width, text_height,
                   position, scan, y, r, g, b, drawCalls, saveCalls, firstRun>>

\* lines 31-36
ResolveFont ==
    /\ pc = "font"
    /\ font_size' = FontSize(size)
    /\ font' = LoadFont(arialAvailable[i], FontSize(size))
    /\ pc' = "measure"
    /\ UNCHANGED <<env, rerun, error, dirExists, files, output, i,
                   img, corner_radius, text_width, text_height,
                   position, scan, y, r, g, b, drawCalls, saveCalls, firstRun>>

\* lines 39-41, and the range object of line 44
MeasureText ==
    /\ pc = "measure"
    /\ text_width' = TextSize(font_size)[1]
    /\ text_height' = TextSize(font_size)[2]
    /\ position' = Position(size, TextSize(font_size)[1], TextSize(font_size)[2])
    /\ scan' = 0
    /\ pc' = "gradient"
    /\ UNCHANGED <<env, rerun, error, dirExists, files, output, i,
                   img, corner_radius, font_size, font,
                   y, r, g, b, drawCalls, saveCalls, firstRun>>

\* lines 44-60: one iteration of the gradient loop
GradientStep ==
    /\ pc = "gradient"
    /\ position[2] + scan < RangeStop(position[2], text_height)
    /\ y' = position[2] + scan
    /\ scan' = scan + 1
    /\ IF text_height = 0
       THEN /\ error' = "ZeroDivisionError"
            /\ pc' = "aborted"
            /\ UNCHANGED <<img, r, g, b, drawCalls>>
       ELSE LET c == GradientColor(y' - position[2], text_height)
            IN  /\ r' = c[1]
                /\ g' = c[2]
                /\ b' = c[3]
                /\ img' = DrawText(img, position, font, c)
                /\ drawCalls' = drawCalls + 1
                /\ UNCHANGED <<pc, error>>
    /\ UNCHANGED <<env, rerun, dirExists, files, output, i,
                   corner_radius, font_size, font, text_width, text_height,
                   position, saveCalls, firstRun>>

\* line 44: the range is exhausted
GradientExit ==
    /\ pc = "gradient"
    /\ ~(position[2] + scan < RangeStop(position[2], text_height))
    /\ pc' = "save"
    /\ UNCHANGED <<env, rerun, error, dirExists, files, output, i, locals,
                   saveCalls, firstRun>>

\* line 63: the write succeeds, or raises
Save ==
    /\ pc = "save"
    /\ \E ok \in BOOLEAN :
          /\ saveCalls' = Append(saveCalls, <<icon_name, ok>>)
          /\ IF ok
             THEN /\ files' = (icon_name :> Encode(img)) @@ files
                  /\ pc' = "print"
                  /\ UNCHANGED error
             ELSE /\ pc' = AfterSaveError
                  /\ error' = IF AfterSaveError = "aborted" THEN "IOError" ELSE error
                  /\ UNCHANGED files
    /\ UNCHANGED <<env, rerun, dirExists, output, i, locals, firstRun>>

\* line 64
PrintGenerated ==
    /\ pc = "print"
    /\ output' = Append(output, GeneratedLine(icon_name, size))
    /\ pc' = "for"
    /\ UNCHANGED <<env, rerun, error, dirExists, files, i, locals,
                   saveCalls, firstRun>>

\* line 66
PrintDone ==
    /\ pc = "final"
    /\ output' = Append(output, DoneLine)
    /\ pc' = "done"
    /\ UNCHANGED <<env, rerun, error, dirExists, files, i, locals,
                   saveCalls, firstRun>>

\* The script is started a second time, in the same environment, with the
\* directory and the files of the first execution in place.
Rerun ==
    /\ pc = "done"
    /\ ~rerun
    /\ rerun' = TRUE
    /\ firstRun' = [files |-> files, output |-> output]
    /\ pc' = "makedirs"
    /\ output' = <<>>
    /\ i' = 0
    /\ img' = NoImage
    /\ corner_radius' = 0
    /\ font_size' = 0
    /\ font' = NoFont
    /\ text_width' = 0
    /\ text_height' = 0
    /\ position' = <<0, 0>>
    /\ scan' = 0
    /\ y' = 0
    /\ r' = 0
    /\ g' = 0
    /\ b' = 0
    /\ drawCalls' = 0
    /\ saveCalls' = <<>>
    /\ UNCHANGED <<env, error, dirExists, files>>

Next ==
    \/ MakeDirs
    \/ ForIcon
    \/ NewImage
    \/ DrawBackground
    \/ ResolveFont
    \/ MeasureText
    \/ GradientStep
    \/ GradientExit
    \/ Save
    \/ PrintGenerated
    \/ PrintDone
    \/ Rerun

Spec == Init /\ [][Next]_vars

(***************************************************************************)
(* The gradient loop on its own: the script at line 44 of its first icon,  *)
(* for every glyph height up to MaxRampHeight that the measurement may     *)
(* report (and the assumed height when there is no measurement).           *)
(***************************************************************************)
RampBoxes == (1..MaxGlyphWidth) \X (0..MaxRampHeight)

RampInit ==
    /\ hasTextsize \in BOOLEAN
    /\ arialAvailable \in FontPatterns
    /\ glyphBox \in (IF hasTextsize THEN RampBoxes ELSE {NoBox})
    /\ pc = "gradient"
    /\ rerun = FALSE
    /\ error = "none"
    /\ dirExists = TRUE
    /\ files = NoFiles
    /\ output = <<>>
    /\ i = 1
    /\ img = RoundedRectangle(ImageNew(size), size, size \div 5)
    /\ corner_radius = size \div 5
    /\ font_size = FontSize(size)
    /\ font = LoadFont(arialAvailable[i], font_size)
    /\ text_width = TextSize(font_size)[1]
    /\ text_height = TextSize(font_size)[2]
    /\ position = Position(size, text_width, text_height)
    /\ scan = 0
    /\ y = 0
    /\ r = 0
    /\ g = 0
    /\ b = 0
    /\ drawCalls = 0
    /\ saveCalls = <<>>
    /\ firstRun = [files |-> NoFiles, output |-> <<>>]

RampNext == GradientStep \/ GradientExit

SpecRamp == RampInit /\ [][RampNext]_vars

(***************************************************************************)
(* What the claims are stated against: the icon list as the interface      *)
(* documents it, and exact integer arithmetic for the ramp.                *)
(***************************************************************************)
ExpectedIcons ==
    << <<"Icon-40.png", 40>>,  <<"Icon-60.png", 60>>,
       <<"Icon-58.png", 58>>,  <<"Icon-87.png", 87>>,
       <<"Icon-80.png", 80>>,  <<"Icon-120.png", 120>>,
       <<"Icon-180.png", 180>>, <<"Icon-1024.png", 1024>> >>

ExpectedNames(n) == {ExpectedIcons[j][1] : j \in 1..n}

ExpectedOutput ==
    [j \in 1..8 |-> <<"Generated", ExpectedIcons[j][1], ExpectedIcons[j][2],
                      ExpectedIcons[j][2]>>]
        \o << <<"All icons generated successfully!">> >>

IsPrefix(p, q) == Len(p) <= Len(q) /\ p = SubSeq(q, 1, Len(p))

\* r, g, b, y hold the colour and the scanline of an iteration of the
\* gradient loop of the current icon
InGlyph == drawCalls >= 1
ScanIndex == y - position[2]

\* font_size and font are those of the current icon
FontResolved == pc \in {"measure", "gradient", "save", "print"}
\* text_width, text_height and position are those of the current icon
Measured == pc \in {"gradient", "save", "print"}
\* the gradient loop of the current icon has ended
Rendered == pc \in {"save", "print"}

\* c is the truncation of num / h, or one less where num / h is an integer
\* that the double arithmetic misses from below
TruncOf(c, num, h) == num - h <= c * h /\ c * h <= num

\* C1: a run that reaches its end has written exactly the 8 named files, each
\* holding a square image of the size paired with its name.
AllIconsWritten ==
    pc = "done" =>
        /\ DOMAIN files = ExpectedNames(8)
        /\ \A j \in 1..8 :
              /\ files[ExpectedIcons[j][1]].pixels.width = ExpectedIcons[j][2]
              /\ files[ExpectedIcons[j][1]].pixels.height = ExpectedIcons[j][2]

AllIconsWrittenWitness ==
    /\ pc = "done"
    /\ ~rerun
    /\ Len(saveCalls) = 8
    /\ Cardinality(DOMAIN files) = 8
    /\ files["Icon-1024.png"].pixels.width = 1024

\* C2: the ramp starts at (255, 20, 100), is (255, 170, 0) at the midpoint,
\* keeps r = 255 in the top half, and on every scanline each channel is the
\* truncation of the piecewise formula (so the top half tends to
\* (255, 170, 0) and the bottom half to (0, 255, 150)).
RampBoundaryValues ==
    InGlyph =>
        LET k == ScanIndex
            h == text_height
        IN  /\ k = 0 => <<r, g, b>> = <<255, 20, 100>>
            /\ 2 * k = h => <<r, g, b>> = <<255, 170, 0>>
            /\ 2 * k < h =>
                  /\ r = 255
                  /\ TruncOf(g, 20 * h + 300 * k, h)
                  /\ TruncOf(b, 100 * h - 200 * k, h)
            /\ 2 * k >= h =>
                  /\ TruncOf(r, 255 * h - 255 * (2 * k - h), h)
                  /\ TruncOf(g, 170 * h + 85 * (2 * k - h), h)
                  /\ TruncOf(b, 150 * (2 * k - h), h)

RampBoundaryWitness ==
    /\ InGlyph
    /\ text_height = 64
    /\ 2 * ScanIndex = text_height
    /\ <<r, g, b>> = <<255, 170, 0>>

\* C3: every channel of every scanline is an integer in 0..255 and never
\* exceeds the exact value of its formula: it is truncated, not rounded.
ChannelsTruncatedInRange ==
    InGlyph =>
        LET k == ScanIndex
            h == text_height
        IN  /\ {r, g, b} \subseteq 0..255
            /\ 2 * k < h =>
                  /\ g * h <= 20 * h + 300 * k
                  /\ b * h <= 100 * h - 200 * k
            /\ 2 * k >= h =>
                  /\ r * h <= 255 * h - 255 * (2 * k - h)
                  /\ g * h <= 170 * h + 85 * (2 * k - h)
                  /\ b * h <= 150 * (2 * k - h)

\* a scanline whose green value has a fractional part above one half
ChannelsTruncatedWitness ==
    /\ InGlyph
    /\ 2 * ScanIndex < text_height
    /\ 2 * ((20 * text_height + 300 * ScanIndex) % text_height) > text_height
    /\ g = (20 * text_height + 300 * ScanIndex) \div text_height

\* C4 as stated: font_size = round(size * 0.7)
FontSizeIsRounded ==
    FontResolved => font_size = FRound(FMul(ZeroPointSeven, size))

\* C4 as amended: font_size is the double product size * 0.7 truncated
\* toward zero, and it is the assumed glyph width and height when the
\* measurement is unavailable.
TruncatedFontSizes ==
    (40 :> 28) @@ (60 :> 42) @@ (58 :> 40) @@ (87 :> 60) @@ (80 :> 56)
        @@ (120 :> 84) @@ (180 :> 125) @@ (1024 :> 716)

FontSizeIsTruncated ==
    /\ FontResolved =>
          /\ font_size = TruncatedFontSizes[ExpectedIcons[i][2]]
          /\ font.kind = "truetype" => font.size = font_size
    /\ (Measured /\ ~hasTextsize) =>
          text_width = font_size /\ text_height = font_size

FontSizeWitness ==
    /\ pc = "gradient"
    /\ ~hasTextsize
    /\ size = 180
    /\ font_size = 125
    /\ text_height = 125

\* the state of a run whose last img.save call raised
AbortedRunState ==
    LET n == Len(saveCalls)
    IN  (n >= 1 /\ ~saveCalls[n][2]) =>
            /\ pc = "aborted"
            /\ error = "IOError"
            /\ i = n
            /\ saveCalls = [j \in 1..n |-> <<ExpectedIcons[j][1], j < n>>]
            /\ output = SubSeq(ExpectedOutput, 1, n - 1)
            /\ ExpectedNames(n - 1) \subseteq DOMAIN files
            /\ \A j \in 1..(n - 1) :
                  files[ExpectedIcons[j][1]].pixels.width = ExpectedIcons[j][2]
            /\ ~rerun => DOMAIN files = ExpectedNames(n - 1)
            /\ rerun => \A j \in n..8 :
                  files[ExpectedIcons[j][1]] = firstRun.files[ExpectedIcons[j][1]]

\* an aborted run does not move again, and no step removes a file
AbortIsFinal ==
    /\ pc = "aborted" => UNCHANGED vars
    /\ DOMAIN files \subseteq DOMAIN files'

\* C5: when the write of the n-th icon fails the run is over: the first n-1
\* files are written and stay written, nothing is written or printed for the
\* n-th icon or a later one, the write is not tried again, and no completion
\* line appears.
WriteFailureAborts == []AbortedRunState /\ [][AbortIsFinal]_vars

WriteFailureWitness ==
    /\ pc = "aborted"
    /\ ~rerun
    /\ Len(saveCalls) = 3
    /\ DOMAIN files = {"Icon-40.png", "Icon-60.png"}
    /\ Len(output) = 2

\* C6: no run ends on a font or measurement error; a font that cannot be
\* loaded is replaced by the default font, a missing measurement by
\* (font_size, font_size); and the save of every icon is reached.
FallbacksAreLocal ==
    /\ error \in {"none", "IOError"}
    /\ pc = "aborted" =>
          /\ saveCalls # <<>>
          /\ ~saveCalls[Len(saveCalls)][2]
    /\ FontResolved =>
          /\ arialAvailable[i] =>
                font = [kind |-> "truetype", name |-> "Arial.ttf",
                        size |-> font_size]
          /\ ~arialAvailable[i] => font.kind = "default"
    /\ Measured =>
          /\ ~hasTextsize => <<text_width, text_height>> = <<font_size, font_size>>
          /\ hasTextsize => <<text_width, text_height>> = glyphBox
    /\ pc \in {"final", "done"} => Len(saveCalls) = 8

FallbacksWitness ==
    /\ pc = "save"
    /\ i = 8
    /\ arialAvailable[1]
    /\ ~arialAvailable[8]
    /\ font.kind = "default"
    /\ ~hasTextsize
    /\ text_height = font_size

\* C7: the icons are processed one at a time in list order: while icon n is
\* rendered, exactly the n-1 icons before it are written and announced; the
\* line of an icon follows its write and precedes the next icon; the
\* completion line comes last.
SequentialInOrder ==
    /\ IsPrefix(output, ExpectedOutput)
    /\ \A j \in 1..Len(saveCalls) : saveCalls[j][1] = ExpectedIcons[j][1]
    /\ pc \in {"new", "rect", "font", "measure", "gradient", "save"} =>
          /\ Len(output) = i - 1
          /\ saveCalls = [j \in 1..(i - 1) |-> <<ExpectedIcons[j][1], TRUE>>]
    /\ (pc \in {"rect", "font", "measure", "gradient", "save"}) =>
          img.width = ExpectedIcons[i][2]
    /\ pc = "print" =>
          /\ Len(output) = i - 1
          /\ saveCalls = [j \in 1..i |-> <<ExpectedIcons[j][1], TRUE>>]
          /\ files[ExpectedIcons[i][1]] = Encode(img)
    /\ pc = "for" =>
          /\ Len(output) = i
          /\ Len(saveCalls) = i
    /\ pc = "final" => Len(output) = 8
    /\ pc = "done" => output = ExpectedOutput
    /\ Len(output) = 9 => pc = "done"

SequentialWitness ==
    /\ pc = "print"
    /\ i = 3
    /\ output = << <<"Generated", "Icon-40.png", 40, 40>>,
                   <<"Generated", "Icon-60.png", 60, 60>> >>
    /\ "Icon-58.png" \in DOMAIN files

ScanlineRange ==
    /\ error # "ZeroDivisionError"
    /\ Measured =>
          /\ 2 * position[2] <= size - text_height
          /\ size - text_height <= 2 * position[2] + 1
          /\ scan = drawCalls
    /\ InGlyph =>
          /\ y = position[2] + drawCalls - 1
          /\ position[2] <= y
          /\ y <= position[2] + text_height - 1
          /\ FLess(FDiv(ScanIndex, text_height), FInt(1))
          /\ ~FLess(FDiv(ScanIndex, text_height), FInt(0))
    /\ Rendered => drawCalls = text_height

ScanlineRangeWitness ==
    /\ pc = "save"
    /\ hasTextsize
    /\ text_height = 0
    /\ drawCalls = 0
    /\ img.glyph = {}
====
